---- MODULE Spec2Model ----
(***************************************************************************)
(* Model of the weather tool of Zypher-AI-Agent-Demo (src/main.ts):        *)
(* the schema-validated tool wrapper (createTool / weatherForcasting), the *)
(* geocode -> forecast -> format pipeline (getCoordinatesFromZip,          *)
(* getWeather, getWeatherByZip, formatWeather, getReadableWeatherByZip)    *)
(* and the command-line entry point.                                       *)
(*                                                                         *)
(* Every call of an entry point is an "invocation" with its own locals.    *)
(* An invocation is suspended at every await of the source; the steps      *)
(* between two awaits are one action.  The two upstream services are the   *)
(* variables geoService and fcService, fixed for a whole behaviour.        *)
(***************************************************************************)
EXTENDS Integers, Sequences, FiniteSets, TLC

(***************************************************************************)
(* Bounds of the model.                                                    *)
(***************************************************************************)
\* number of invocations the host may have in flight at once (SpecConc)
NumInvocations == 2
\* how far outside the accepted day range the inputs go
Margin == 1

(***************************************************************************)
(* JavaScript values.  A number is an integer n, n + 0.5 ("half", n >= 0)  *)
(* or NaN; strings are TLA+ strings; undefined is its own value.           *)
(***************************************************************************)
Num(n) == [t |-> "number", k |-> "int", n |-> n]
Half(n) == [t |-> "number", k |-> "half", n |-> n]
NaN == [t |-> "number", k |-> "NaN", n |-> 0]
Str(s) == [t |-> "string", s |-> s]
Undefined == [t |-> "undefined"]

IsNumber(v) == v.t = "number"
IsString(v) == v.t = "string"
IsNaN(v) == IsNumber(v) /\ v.k = "NaN"
\* Number.isInteger
IsInteger(v) == IsNumber(v) /\ v.k = "int"

\* twice the value of a number that is not NaN
Twice(v) == 2 * v.n + (IF v.k = "half" THEN 1 ELSE 0)

\* a < b and a > b on numbers: false as soon as one side is NaN
JsLess(a, b) == ~IsNaN(a) /\ ~IsNaN(b) /\ Twice(a) < Twice(b)
JsGreater(a, b) == JsLess(b, a)

\* a + 1 on a number
JsAddOne(a) == IF IsNaN(a) THEN NaN ELSE [a EXCEPT !.n = @ + 1]

\* truthiness of a value: undefined, "", 0 and NaN are falsy
Truthy(v) ==
    CASE v.t = "undefined" -> FALSE
      [] v.t = "string" -> v.s # ""
      [] v.t = "number" -> ~(v.k = "NaN" \/ (v.k = "int" /\ v.n = 0))

\* the text a template literal `${v}` puts for a value
JsToString(v) ==
    CASE v.t = "undefined" -> "undefined"
      [] v.t = "string" -> v.s
      [] v.t = "number" ->
            CASE v.k = "NaN" -> "NaN"
              [] v.k = "int" -> ToString(v.n)
              [] v.k = "half" -> ToString(v.n) \o ".5"

(***************************************************************************)
(* Strings.                                                                *)
(***************************************************************************)
CharAt(s, i) == SubSeq(s, i, i)

Digits == {"0", "1", "2", "3", "4", "5", "6", "7", "8", "9"}
DigitVal ==
    [c \in Digits |->
        CASE c = "0" -> 0 [] c = "1" -> 1 [] c = "2" -> 2 [] c = "3" -> 3
          [] c = "4" -> 4 [] c = "5" -> 5 [] c = "6" -> 6 [] c = "7" -> 7
          [] c = "8" -> 8 [] c = "9" -> 9]

WhiteSpace == {" ", "\n", "\t"}

Contains(s, sub) ==
    \E i \in 1..(Len(s) - Len(sub) + 1) : SubSeq(s, i, i + Len(sub) - 1) = sub

RECURSIVE TrimStart(_)
TrimStart(s) ==
    IF Len(s) > 0 /\ CharAt(s, 1) \in WhiteSpace
    THEN TrimStart(SubSeq(s, 2, Len(s)))
    ELSE s

RECURSIVE TrimEnd(_)
TrimEnd(s) ==
    IF Len(s) > 0 /\ CharAt(s, Len(s)) \in WhiteSpace
    THEN TrimEnd(SubSeq(s, 1, Len(s) - 1))
    ELSE s

\* String.prototype.trim
Trim(s) == TrimEnd(TrimStart(s))

\* the number of leading decimal digits of s from position i on
RECURSIVE DigitRun(_, _)
DigitRun(s, i) ==
    IF i <= Len(s) /\ CharAt(s, i) \in Digits THEN 1 + DigitRun(s, i + 1) ELSE 0

\* the value of the decimal digits s[i .. j]
RECURSIVE DigitsValue(_, _, _)
DigitsValue(s, i, j) ==
    IF j < i THEN 0 ELSE 10 * DigitsValue(s, i, j - 1) + DigitVal[CharAt(s, j)]

\* parseInt(s): leading white space, an optional sign, then decimal digits;
\* NaN when no digit follows
parseInt(str) ==
    LET s == TrimStart(str)
        signed == Len(s) > 0 /\ CharAt(s, 1) \in {"-", "+"}
        first == IF signed THEN 2 ELSE 1
        run == DigitRun(s, first)
        val == DigitsValue(s, first, first + run - 1)
    IN  IF run = 0 THEN NaN
        ELSE Num(IF signed /\ CharAt(s, 1) = "-" THEN 0 - val ELSE val)

\* parseFloat(s): as parseInt, then an optional fraction; the numbers of the
\* model carry the fraction .5 only, and only on a value that is not negative
parseFloat(str) ==
    LET s == TrimStart(str)
        signed == Len(s) > 0 /\ CharAt(s, 1) \in {"-", "+"}
        first == IF signed THEN 2 ELSE 1
        run == DigitRun(s, first)
        after == first + run
        whole == parseInt(str)
    IN  IF run = 0 THEN NaN
        ELSE IF after + 1 <= Len(s) /\ SubSeq(s, after, after + 1) = ".5" /\ whole.n >= 0
             THEN Half(whole.n)
             ELSE whole

(***************************************************************************)
(* The table of weather codes.                                             *)
(***************************************************************************)
WeatherCodeKeys ==
    {0, 1, 2, 3, 45, 48, 51, 53, 55, 61, 63, 65, 71, 73, 75, 77, 80, 81, 82,
     85, 86, 95, 96, 99}

weatherCodes ==
    [c \in WeatherCodeKeys |->
        CASE c = 0 -> "Clear sky"
          [] c = 1 -> "Mainly clear"
          [] c = 2 -> "Partly cloudy"
          [] c = 3 -> "Overcast"
          [] c = 45 -> "Foggy"
          [] c = 48 -> "Depositing rime fog"
          [] c = 51 -> "Light drizzle"
          [] c = 53 -> "Moderate drizzle"
          [] c = 55 -> "Dense drizzle"
          [] c = 61 -> "Slight rain"
          [] c = 63 -> "Moderate rain"
          [] c = 65 -> "Heavy rain"
          [] c = 71 -> "Slight snow"
          [] c = 73 -> "Moderate snow"
          [] c = 75 -> "Heavy snow"
          [] c = 77 -> "Snow grains"
          [] c = 80 -> "Slight rain showers"
          [] c = 81 -> "Moderate rain showers"
          [] c = 82 -> "Violent rain showers"
          [] c = 85 -> "Slight snow showers"
          [] c = 86 -> "Heavy snow showers"
          [] c = 95 -> "Thunderstorm"
          [] c = 96 -> "Thunderstorm with slight hail"
          [] c = 99 -> "Thunderstorm with heavy hail"]

\* weatherCodes[weatherCode]: undefined for a key the object does not have
WeatherCodeLookup(code) ==
    IF IsInteger(code) /\ code.n \in WeatherCodeKeys
    THEN Str(weatherCodes[code.n])
    ELSE Undefined

DescribeNoFallback(code) == WeatherCodeLookup(code)

\* weatherCodes[weatherCode] || 'Unknown'
Describe(code) ==
    IF Truthy(WeatherCodeLookup(code)) THEN WeatherCodeLookup(code) ELSE Str("Unknown")

(***************************************************************************)
(* Errors.  None of the source's failures has a class of its own: the      *)
(* geocode, range and fetch failures are plain Error objects told apart by *)
(* their message; a read through undefined is the runtime's TypeError and  *)
(* a schema failure is the validation library's ZodError, whose issues     *)
(* name the offending fields.                                              *)
(***************************************************************************)
MkError(name, message) == [name |-> name, message |-> message, issues |-> {}]

\* line 150
GeocodeError(zipCode) ==
    MkError("Error", "Failed to fetch coordinates for ZIP code " \o zipCode)
\* line 171
RangeError ==
    MkError("Error", "nextday must be between 0 and 16 (Open-Meteo free tier limit)")
\* line 181
FetchError == MkError("Error", "Failed to fetch weather data")
\* reading a property of undefined (lines 157 and 187)
TypeErrorReading(prop) ==
    MkError("TypeError", "Cannot read properties of undefined (reading '" \o prop \o "')")
ValidationError(fields) ==
    [name |-> "ZodError", message |-> "Invalid input", issues |-> fields]

(***************************************************************************)
(* The parameter schema of weatherForcasting:                              *)
(*   z.object({ zipcode: z.string(), daysAhead: z.number().int() })        *)
(* A payload is an object whose zipcode, daysAhead and one further key     *)
(* ("extra") each hold any value, undefined standing for an absent key.    *)
(***************************************************************************)
\* z.string()
ZipcodeOk(v) == IsString(v)
DaysAheadAnyNumber(v) == IsNumber(v) /\ ~IsNaN(v)
\* z.number().int(): a number, not NaN, and an integer
DaysAheadOk(v) == IsNumber(v) /\ ~IsNaN(v) /\ IsInteger(v)

\* the fields the schema finds at fault
SchemaIssues(raw) ==
    (IF ZipcodeOk(raw.zipcode) THEN {} ELSE {"zipcode"})
        \cup (IF DaysAheadOk(raw.daysAhead) THEN {} ELSE {"daysAhead"})

SchemaAccepts(raw) == SchemaIssues(raw) = {}

\* the parsed value: the declared keys only, unknown keys stripped
SchemaParse(raw) == [zipcode |-> raw.zipcode, daysAhead |-> raw.daysAhead]

(***************************************************************************)
(* The upstream services, as the requests of the source see them.          *)
(***************************************************************************)
Zips == {"02148", "00000"}

GeoUrlPrefix == "https://api.zippopotam.us/us/"
\* line 147
GeoUrl(zipCode) == GeoUrlPrefix \o zipCode

\* the place record the address service holds for a postal code
PlaceOf(zip) ==
    IF zip = "02148"
    THEN [latitude |-> "42.5", longitude |-> "-71"]
    ELSE [latitude |-> "10", longitude |-> "20.5"]

\* what the address service may answer for a postal code: a non-success
\* status, a success with no place record, a success with one place record
GeoAnswers(zip) ==
    { [ok |-> FALSE, status |-> 404, places |-> << >>],
      [ok |-> TRUE, status |-> 200, places |-> << >>],
      [ok |-> TRUE, status |-> 200, places |-> << PlaceOf(zip) >>] }

GeoServices == { f \in [Zips -> UNION { GeoAnswers(z) : z \in Zips }] :
                    \A z \in Zips : f[z] \in GeoAnswers(z) }

\* the answer to fetch(url) of the address service
GeoRespond(svc, url) ==
    LET zip == SubSeq(url, Len(GeoUrlPrefix) + 1, Len(url))
    IN  IF zip \in Zips THEN svc[zip]
        ELSE [ok |-> FALSE, status |-> 404, places |-> << >>]

\* lines 175-176: the query of the forecast request, each value as the
\* template literal writes it into the URL
ForecastDaysMinusOne(nextday) == nextday
ForecastDays(nextday) == JsAddOne(nextday)

ForecastRequest(lat, lon, nextday) ==
    [latitude |-> JsToString(lat), longitude |-> JsToString(lon),
     daily |-> "temperature_2m_max,temperature_2m_min,precipitation_sum,weather_code",
     temperature_unit |-> "fahrenheit", timezone |-> "America/New_York",
     forecast_days |-> JsToString(ForecastDays(nextday))]

\* the weather codes the forecast service cycles through; 4 is no key of the table
CodeCycle == << 1, 0, 4, 99, 45 >>
Seeds == {0, 1}
FcModes == {"ok", "error", "nodaily"}
FcServices == [mode : FcModes, seed : Seeds]

TwoDigits(n) == IF n < 10 THEN "0" \o ToString(n) ELSE ToString(n)

\* day k (0 = today) of the forecast of a service for a latitude
DayTime(k) == Str("2024-06-" \o TwoDigits(k + 1))
DayMax(svc, lat, k) == Num(73 + k + svc.seed + (lat.n % 10))
DayMin(svc, lat, k) == Num(60 + k - svc.seed)
DayPrecipitation(k) == IF k % 2 = 0 THEN Num(k \div 2) ELSE Half(k \div 2)
DayCode(svc, k) == Num(CodeCycle[((k + svc.seed) % Len(CodeCycle)) + 1])

\* the answer to fetch(url) of the forecast service: a query it cannot read
\* (a count of days that is no positive integer, a coordinate that is no
\* number) is refused; otherwise one entry per requested day in every array
FcRespond(svc, req) ==
    LET days == parseInt(req.forecast_days)
        lat == parseFloat(req.latitude)
        lon == parseFloat(req.longitude)
        readable == /\ IsInteger(days) /\ days.n >= 1
                    /\ JsToString(days) = req.forecast_days
                    /\ ~IsNaN(lat) /\ ~IsNaN(lon)
    IN  IF svc.mode = "error" \/ ~readable
        THEN [ok |-> FALSE, body |-> Undefined]
        ELSE IF svc.mode = "nodaily"
        THEN [ok |-> TRUE, body |-> [daily |-> Undefined]]
        ELSE [ok |-> TRUE,
              body |-> [daily |->
                [time |-> [k \in 1..days.n |-> DayTime(k - 1)],
                 temperature_2m_max |-> [k \in 1..days.n |-> DayMax(svc, lat, k - 1)],
                 temperature_2m_min |-> [k \in 1..days.n |-> DayMin(svc, lat, k - 1)],
                 precipitation_sum |-> [k \in 1..days.n |-> DayPrecipitation(k - 1)],
                 weather_code |-> [k \in 1..days.n |-> DayCode(svc, k - 1)]]]]

(***************************************************************************)
(* State.  call[i] holds the locals of invocation i and what the outside   *)
(* sees of it (the requests it sent, what it wrote, how it ended).         *)
(***************************************************************************)
VARIABLES geoService, fcService, call

vars == << geoService, fcService, call >>

Invocations == 1..NumInvocations

\* the accepted day range of getWeather (line 170)
MinDay == 0
LimitDays == 16

NewCall ==
    [entry |-> "none", pc |-> "START",
     raw |-> Undefined, executeArgs |-> << >>,
     zipCode |-> "", daysAhead |-> Undefined,
     geoRequests |-> << >>, fcRequests |-> << >>,
     coords |-> Undefined, data |-> Undefined, weather |-> Undefined,
     result |-> Undefined, error |-> Undefined, failedAt |-> "",
     args |-> << >>, exited |-> FALSE, exitCode |-> 0,
     stdout |-> << >>, stderr |-> << >>]

Init ==
    /\ geoService \in GeoServices
    /\ fcService \in FcServices
    /\ call = [i \in Invocations |-> NewCall]

(***************************************************************************)
(* The steps of the pipeline, as functions of an invocation's record.      *)
(***************************************************************************)
\* the caller's view of an error thrown below it: no function of the source
\* catches between the throw and the entry point, so it arrives unchanged
PropagateWrapped(err) == MkError("Error", "Tool failed: " \o err.message)
Propagate(err) == err

\* a throw in stage `stage`: the run ends there
Fail(c, err, stage) ==
    [c EXCEPT !.pc = "FAILED", !.error = Propagate(err), !.failedAt = stage]

\* line 170: the guard of getWeather
OutOfRange(nextday) ==
    JsLess(nextday, Num(MinDay)) \/ JsGreater(nextday, Num(LimitDays))

\* lines 169-178: getWeather up to its first await
GetWeatherStart(c, lat, lon, nextday) ==
    IF OutOfRange(nextday)
    THEN Fail(c, RangeError, "FORECAST_FETCH")
    ELSE [c EXCEPT !.pc = "FORECAST_FETCH",
                   !.fcRequests = Append(@, ForecastRequest(lat, lon, nextday))]

\* lines 226-227, 205-206, 146-147: getReadableWeatherByZip down to the
\* fetch of getCoordinatesFromZip
PipelineStart(c, zipCode, daysAhead) ==
    [c EXCEPT !.zipCode = zipCode, !.daysAhead = daysAhead,
              !.pc = "GEOCODE", !.geoRequests = Append(@, GeoUrl(zipCode))]

\* lines 149-160 and 207: the rest of getCoordinatesFromZip once the answer is
\* there, then getWeatherByZip calls getWeather
GeocodeDone(c, resp) ==
    IF ~resp.ok
    THEN Fail(c, GeocodeError(c.zipCode), "GEOCODE")
    ELSE IF Len(resp.places) = 0
    THEN Fail(c, TypeErrorReading("latitude"), "GEOCODE")
    ELSE LET place == resp.places[1]
             coords == [lat |-> parseFloat(place.latitude),
                        lon |-> parseFloat(place.longitude)]
         IN  GetWeatherStart([c EXCEPT !.coords = coords],
                             coords.lat, coords.lon, c.daysAhead)

\* lines 180-184: the answer of the forecast service
ForecastDone(c, resp) ==
    IF ~resp.ok
    THEN Fail(c, FetchError, "FORECAST_FETCH")
    ELSE [c EXCEPT !.data = resp.body, !.pc = "SELECT_DAY"]

\* arr[idx] of an array: undefined unless idx is an index of it
Index(arr, idx) ==
    IF IsInteger(idx) /\ idx.n >= 0 /\ idx.n < Len(arr) THEN arr[idx.n + 1] ELSE Undefined

\* lines 187-196: the record of the requested day
WeatherRecord(daily, nextday) ==
    LET weatherCode == Index(daily.weather_code, nextday)
    IN  [date |-> Index(daily.time, nextday),
         maxTemp |-> Index(daily.temperature_2m_max, nextday),
         minTemp |-> Index(daily.temperature_2m_min, nextday),
         precipitation |-> Index(daily.precipitation_sum, nextday),
         weatherCode |-> weatherCode,
         weatherDescription |-> Describe(weatherCode)]

\* lines 187-196, the return of getWeather: to its caller's caller, or (called
\* on its own) to the caller
SelectDay(c) ==
    IF c.data.daily = Undefined
    THEN Fail(c, TypeErrorReading("weather_code"), "SELECT_DAY")
    ELSE [c EXCEPT !.weather = WeatherRecord(c.data.daily, c.daysAhead),
                   !.pc = IF c.entry = "getWeather" THEN "DONE" ELSE "FORMAT"]

\* lines 215-224
formatWeather(weather) ==
    Trim("\nWeather Forecast for " \o JsToString(weather.date)
         \o "\nCondition: " \o JsToString(weather.weatherDescription)
         \o "\nHigh: " \o JsToString(weather.maxTemp) \o "°F"
         \o "\nLow: " \o JsToString(weather.minTemp) \o "°F"
         \o "\nPrecipitation: " \o JsToString(weather.precipitation) \o " mm"
         \o "\nDescription: " \o JsToString(weather.weatherDescription)
         \o "\n  ")

\* line 228
Format(c) == [c EXCEPT !.result = Str(formatWeather(c.weather)), !.pc = "DONE"]

\* lines 71-74 and 86-88: execute of the tool
ToolExecuteUnchecked(c, raw) ==
    PipelineStart([c EXCEPT !.entry = "tool", !.raw = raw,
                            !.executeArgs = Append(@, raw)],
                  JsToString(raw.zipcode), raw.daysAhead)
ToolExecute(c, raw) ==
    IF ~SchemaAccepts(raw)
    THEN Fail([c EXCEPT !.entry = "tool", !.raw = raw],
              ValidationError(SchemaIssues(raw)), "START")
    ELSE LET validatedParams == SchemaParse(raw)
         IN  PipelineStart([c EXCEPT !.entry = "tool", !.raw = raw,
                                     !.executeArgs = Append(@, validatedParams)],
                           validatedParams.zipcode.s, validatedParams.daysAhead)

(***************************************************************************)
(* The command-line entry point (lines 232-258).                           *)
(***************************************************************************)
\* args[i]: undefined past the end
Arg(args, i) == IF i < Len(args) THEN Str(args[i + 1]) ELSE Undefined
\* args.includes(x)
Includes(args, x) == \E k \in 1..Len(args) : args[k] = x

DefaultZip == "02148"
DefaultDays == Num(1)

\* line 236
CliZipCode(args) == IF Truthy(Arg(args, 0)) THEN args[1] ELSE DefaultZip
\* line 237
CliDaysAhead(args) == IF Truthy(Arg(args, 1)) THEN parseInt(args[2]) ELSE DefaultDays

\* line 247
FetchingLine(zipCode, daysAhead) ==
    "Fetching weather for ZIP code " \o zipCode \o " (" \o JsToString(daysAhead)
        \o " day" \o (IF daysAhead # Num(1) THEN "s" ELSE "") \o " from today)...\n"

\* lines 233-252, down to the first await
CliStart(c, args) ==
    LET zipCode == CliZipCode(args)
        daysAhead == CliDaysAhead(args)
        banner == "Weather Forecast CLI\n"
    IN  IF Includes(args, "--help") \/ Includes(args, "-h")
        THEN [c EXCEPT !.entry = "cli", !.args = args,
                       !.stdout = << banner, "Usage: deno -A weather.ts [zipcode] [days]" >>,
                       !.exited = TRUE, !.exitCode = 0]
        ELSE PipelineStart([c EXCEPT !.entry = "cli", !.args = args,
                                     !.stdout = << banner, FetchingLine(zipCode, daysAhead) >>],
                           zipCode, daysAhead)

CliEndNoExit(c) ==
    IF c.pc = "DONE"
    THEN [c EXCEPT !.stdout = Append(@, c.result.s), !.exited = TRUE, !.exitCode = 0]
    ELSE [c EXCEPT !.stderr = Append(@, "Error: " \o c.error.message),
                   !.exited = TRUE, !.exitCode = 0]

\* lines 252-257: the forecast is printed and the script ends, or the catch
\* block prints the message and exits with status 1
CliEnd(c) ==
    IF c.pc = "DONE"
    THEN [c EXCEPT !.stdout = Append(@, c.result.s), !.exited = TRUE, !.exitCode = 0]
    ELSE [c EXCEPT !.stderr = Append(@, "Error: " \o c.error.message),
                   !.exited = TRUE, !.exitCode = 1]

(***************************************************************************)
(* Inputs.                                                                 *)
(***************************************************************************)
DayInputs ==
    { Num(n) : n \in (MinDay - Margin)..(LimitDays + Margin) }
        \cup { NaN, Half(1), Half(LimitDays) }

Payloads ==
    [zipcode : { Undefined, Num(2148) } \cup { Str(z) : z \in Zips },
     daysAhead : DayInputs \cup { Undefined, Str("1") },
     extra : { Undefined, Str("x") }]

Points == { [lat |-> Half(42), lon |-> Num(-71)], [lat |-> Num(10), lon |-> Half(20)] }

CliArgs ==
    { << >>, << "--help" >>, << "-h" >>, << "02148", "--help" >>,
      << "02148" >>, << "00000", "3" >>, << "02148", "0" >>, << "02148", "16" >>,
      << "02148", "17" >>, << "02148", "-1" >>, << "02148", "abc" >>,
      << "02148", "2.5" >>, << "", "2" >>, << "02148", "" >> }

\* the inputs of the concurrent invocations
ConcDays == { Num(1), Num(LimitDays + Margin) }
ConcPayloads ==
    [zipcode : { Str(z) : z \in Zips }, daysAhead : ConcDays, extra : { Undefined }]
        \cup { [zipcode |-> Undefined, daysAhead |-> Num(1), extra |-> Undefined] }

(***************************************************************************)
(* Actions.  Invocation i takes a step; nothing else changes.              *)
(***************************************************************************)
Step(i, c) ==
    /\ call' = [call EXCEPT ![i] = c]
    /\ UNCHANGED << geoService, fcService >>

\* the invocation of the runs that are not concurrent: the first one
Main == CHOOSE i \in Invocations : \A j \in Invocations : i <= j

LocalsShared(i) ==
    [call[i] EXCEPT !.daysAhead =
        IF call[Main].entry # "none" THEN call[Main].daysAhead ELSE @]

\* the parameters and locals a suspended call resumes with: those of its own
\* activation (zipCode, daysAhead, coords, data, weather are parameters and
\* consts of the async functions; the module keeps no variable of its own)
Locals(i) == call[i]

\* the host calls weatherForcasting.execute(raw, ctx)
ToolInvoke(i, raw) ==
    /\ call[i].entry = "none"
    /\ Step(i, ToolExecute(call[i], raw))

\* a caller calls getReadableWeatherByZip(zipCode, daysAhead)
ReadableCall(i, zipCode, daysAhead) ==
    /\ call[i].entry = "none"
    /\ Step(i, PipelineStart([call[i] EXCEPT !.entry = "pipeline"], zipCode, daysAhead))

\* a caller calls getWeather(lat, lon, nextday)
GetWeatherCall(i, lat, lon, nextday) ==
    /\ call[i].entry = "none"
    /\ Step(i, GetWeatherStart([call[i] EXCEPT !.entry = "getWeather", !.daysAhead = nextday],
                               lat, lon, nextday))

\* the script is run with arguments args
CliMain(i, args) ==
    /\ call[i].entry = "none"
    /\ Step(i, CliStart(call[i], args))

\* the address service answers
GeocodeAnswer(i) ==
    /\ call[i].pc = "GEOCODE"
    /\ Step(i, GeocodeDone(Locals(i),
                           GeoRespond(geoService, call[i].geoRequests[Len(call[i].geoRequests)])))

\* the forecast service answers
ForecastAnswer(i) ==
    /\ call[i].pc = "FORECAST_FETCH"
    /\ Step(i, ForecastDone(Locals(i),
                            FcRespond(fcService, call[i].fcRequests[Len(call[i].fcRequests)])))

SelectDayStep(i) ==
    /\ call[i].pc = "SELECT_DAY"
    /\ Step(i, SelectDay(Locals(i)))

FormatStep(i) ==
    /\ call[i].pc = "FORMAT"
    /\ Step(i, Format(Locals(i)))

CliExit(i) ==
    /\ call[i].entry = "cli"
    /\ call[i].pc \in {"DONE", "FAILED"}
    /\ ~call[i].exited
    /\ Step(i, CliEnd(Locals(i)))

\* one run at a time, over all the inputs
Next ==
    \/ \E raw \in Payloads : ToolInvoke(Main, raw)
    \/ \E z \in Zips, d \in DayInputs : ReadableCall(Main, z, d)
    \/ \E p \in Points, d \in DayInputs : GetWeatherCall(Main, p.lat, p.lon, d)
    \/ \E a \in CliArgs : CliMain(Main, a)
    \/ GeocodeAnswer(Main)
    \/ ForecastAnswer(Main)
    \/ SelectDayStep(Main)
    \/ FormatStep(Main)
    \/ CliExit(Main)

Spec == Init /\ [][Next]_vars

\* the host has several tool calls in flight, interleaved at their awaits
NextConc ==
    \E i \in Invocations :
        \/ \E raw \in ConcPayloads : ToolInvoke(i, raw)
        \/ \E z \in Zips, d \in ConcDays : ReadableCall(i, z, d)
        \/ GeocodeAnswer(i)
        \/ ForecastAnswer(i)
        \/ SelectDayStep(i)
        \/ FormatStep(i)

SpecConc == Init /\ [][NextConc]_vars

(***************************************************************************)
(* Properties.                                                             *)
(***************************************************************************)
Finished(c) == c.pc \in {"DONE", "FAILED"}
\* the entries that run the whole pipeline
RunsPipeline(c) == c.entry \in {"tool", "pipeline", "cli"}
\* 0 <= d <= 16
InDayRange(d) ==
    IsNumber(d) /\ ~IsNaN(d) /\ Twice(d) >= 2 * MinDay /\ Twice(d) <= 2 * LimitDays

\* C1: a payload that fails the schema makes the tool call fail with the
\* validation error, naming a field, without executeFn being called and
\* without any request; a payload that passes has executeFn called exactly
\* once, with the parsed value, in every state of the call (no retry).
C1_ValidatedExactlyOnce ==
    \A i \in Invocations :
        LET c == call[i]
        IN  c.entry = "tool" =>
                IF SchemaAccepts(c.raw)
                THEN /\ Len(c.executeArgs) = 1
                     /\ c.executeArgs[1] =
                            [zipcode |-> c.raw.zipcode, daysAhead |-> c.raw.daysAhead]
                     /\ c.zipCode = c.raw.zipcode.s
                     /\ c.daysAhead = c.raw.daysAhead
                     /\ Len(c.geoRequests) = 1
                     /\ ~(c.pc = "FAILED" /\ c.error.name = "ZodError")
                ELSE /\ c.pc = "FAILED"
                     /\ c.error.name = "ZodError"
                     /\ c.error.issues # {}
                     /\ c.error.issues \subseteq {"zipcode", "daysAhead"}
                     /\ c.executeArgs = << >>
                     /\ c.geoRequests = << >>
                     /\ c.fcRequests = << >>

\* a payload with a key the schema does not declare passed validation, and
\* the run it started has ended with a forecast, executeFn called once
C1_Witness ==
    \E i \in Invocations :
        /\ call[i].entry = "tool"
        /\ call[i].raw.extra = Str("x")
        /\ call[i].pc = "DONE"
        /\ Len(call[i].executeArgs) = 1

\* C2: getWeather called with a dayOffset that does not satisfy
\* 0 <= dayOffset <= 16 fails with the range error and sends no request.
C2_RangeRejectedLocally ==
    \A i \in Invocations :
        LET c == call[i]
        IN  (c.entry = "getWeather" /\ ~InDayRange(c.daysAhead)) =>
                /\ c.pc = "FAILED"
                /\ c.error = RangeError
                /\ c.fcRequests = << >>

\* C3: a run of the whole pipeline with a day offset outside [0, 16] sends
\* neither the address request nor the forecast request.
C3_RangeBeforeAnyRequest ==
    \A i \in Invocations :
        LET c == call[i]
        IN  (RunsPipeline(c) /\ IsNumber(c.daysAhead) /\ ~InDayRange(c.daysAhead)) =>
                /\ c.geoRequests = << >>
                /\ c.fcRequests = << >>

\* the answer of the address service to the request of a call
GeoAnswerOf(c) == GeoRespond(geoService, c.geoRequests[1])

\* C4: when the address service answers with a non-success status, or with
\* success and no place record, the run fails with the geocode error, sends
\* no forecast request and produces neither coordinates nor a result.
C4_GeocodeFailure ==
    \A i \in Invocations :
        LET c == call[i]
        IN  (/\ RunsPipeline(c)
             /\ c.geoRequests # << >>
             /\ c.pc # "GEOCODE"
             /\ (~GeoAnswerOf(c).ok \/ GeoAnswerOf(c).places = << >>)) =>
                /\ c.pc = "FAILED"
                /\ c.error = GeocodeError(c.zipCode)
                /\ c.fcRequests = << >>
                /\ c.coords = Undefined
                /\ c.result = Undefined

\* C8: the schema rejects a payload without zipcode, rejects a daysAhead that
\* is no number or no integer, and accepts a string zipcode with an integer
\* daysAhead, {zipcode: "02148", daysAhead: 1} among them.
C8_SchemaDecides ==
    \A i \in Invocations :
        LET c == call[i]
            rejected == c.pc = "FAILED" /\ c.failedAt = "START" /\ c.error.name = "ZodError"
            accepted == c.executeArgs # << >> /\ c.failedAt # "START"
        IN  c.entry = "tool" =>
                /\ c.raw.zipcode = Undefined => (rejected /\ "zipcode" \in c.error.issues)
                /\ ~IsNumber(c.raw.daysAhead) => (rejected /\ "daysAhead" \in c.error.issues)
                /\ (IsNumber(c.raw.daysAhead) /\ ~IsInteger(c.raw.daysAhead)) =>
                        (rejected /\ "daysAhead" \in c.error.issues)
                /\ (IsString(c.raw.zipcode) /\ IsInteger(c.raw.daysAhead)) => accepted
                /\ (c.raw.zipcode = Str("02148") /\ c.raw.daysAhead = Num(1)) => accepted
                /\ rejected \/ accepted

\* the payload {zipcode: "02148", daysAhead: 1} was accepted
C8_Witness ==
    \E i \in Invocations :
        /\ call[i].entry = "tool"
        /\ call[i].raw = [zipcode |-> Str("02148"), daysAhead |-> Num(1), extra |-> Undefined]
        /\ call[i].executeArgs # << >>

\* C5: for an integer dayOffset in 0..16 the forecast request asks for
\* dayOffset + 1 days, and the record returned is entry dayOffset (0 = today,
\* the first entry) of each daily array of the answer.
C5_WindowAndIndex ==
    \A i \in Invocations :
        LET c == call[i]
            d == c.daysAhead
        IN  (c.entry # "none" /\ IsInteger(d) /\ InDayRange(d)) =>
                /\ c.fcRequests # << >> =>
                        c.fcRequests[1].forecast_days = ToString(d.n + 1)
                /\ c.weather # Undefined =>
                        /\ Len(c.data.daily.time) = d.n + 1
                        /\ c.weather.date = c.data.daily.time[d.n + 1]
                        /\ c.weather.maxTemp = c.data.daily.temperature_2m_max[d.n + 1]
                        /\ c.weather.minTemp = c.data.daily.temperature_2m_min[d.n + 1]
                        /\ c.weather.precipitation = c.data.daily.precipitation_sum[d.n + 1]
                        /\ c.weather.weatherCode = c.data.daily.weather_code[d.n + 1]
                        /\ c.weather.date = DayTime(d.n)

\* getWeather called with the largest offset returned the record of day 16
C5_Witness ==
    \E i \in Invocations :
        /\ call[i].entry = "getWeather"
        /\ call[i].daysAhead = Num(LimitDays)
        /\ call[i].pc = "DONE"
        /\ call[i].weather.date = Str("2024-06-17")
        /\ call[i].fcRequests[1].forecast_days = "17"

\* C6: a weather code of the table gives the table's description (1 is
\* "Mainly clear", 0 is "Clear sky"), any other code gives "Unknown"; the run
\* does not fail on either, and the formatted text holds the description,
\* the date, the high, the low and the precipitation of the record.
C6_DescriptionTotal ==
    \A i \in Invocations :
        LET c == call[i]
            w == c.weather
        IN  w # Undefined =>
                /\ c.pc \in (IF c.entry = "getWeather" THEN {"DONE"} ELSE {"FORMAT", "DONE"})
                /\ c.error = Undefined
                /\ (IsInteger(w.weatherCode) /\ w.weatherCode.n \in WeatherCodeKeys) =>
                        w.weatherDescription = Str(weatherCodes[w.weatherCode.n])
                /\ w.weatherCode = Num(1) => w.weatherDescription = Str("Mainly clear")
                /\ w.weatherCode = Num(0) => w.weatherDescription = Str("Clear sky")
                /\ ~(IsInteger(w.weatherCode) /\ w.weatherCode.n \in WeatherCodeKeys) =>
                        w.weatherDescription = Str("Unknown")
                /\ c.pc = "DONE" /\ c.entry # "getWeather" =>
                        /\ IsString(c.result)
                        /\ Contains(c.result.s, "Condition: " \o w.weatherDescription.s \o "\n")
                        /\ Contains(c.result.s, "Weather Forecast for " \o JsToString(w.date) \o "\n")
                        /\ Contains(c.result.s, "High: " \o JsToString(w.maxTemp) \o "°F")
                        /\ Contains(c.result.s, "Low: " \o JsToString(w.minTemp) \o "°F")
                        /\ Contains(c.result.s,
                                    "Precipitation: " \o JsToString(w.precipitation) \o " mm")

\* a run ended with a forecast whose weather code is no key of the table
C6_Witness ==
    \E i \in Invocations :
        /\ call[i].pc = "DONE"
        /\ call[i].entry = "pipeline"
        /\ call[i].weather.weatherCode = Num(4)
        /\ Contains(call[i].result.s, "Unknown")

\* C9: a run of the command-line entry point that has ended has status 0
\* after the help text or after printing the forecast, with nothing on the
\* error stream, or status 1 after one error line holding the message of the
\* failure; a run whose pipeline failed never ends with status 0.
C9_CliExit ==
    \A i \in Invocations :
        LET c == call[i]
            help == Includes(c.args, "--help") \/ Includes(c.args, "-h")
        IN  (c.entry = "cli" /\ c.exited) =>
                /\ c.exitCode \in {0, 1}
                /\ c.exitCode = 0 =>
                        /\ c.stderr = << >>
                        /\ \/ help /\ c.geoRequests = << >> /\ c.pc = "START"
                           \/ /\ ~help
                              /\ c.pc = "DONE"
                              /\ c.stdout[Len(c.stdout)] = formatWeather(c.weather)
                /\ c.exitCode = 1 =>
                        /\ c.pc = "FAILED"
                        /\ Len(c.stderr) = 1
                        /\ c.stderr[1] = "Error: " \o c.error.message
                        /\ ~Contains(c.stderr[1], "\n")
                /\ c.pc = "FAILED" => c.exitCode = 1

\* the script was run with a days argument that is no number, and ended
\* with status 1
C9_Witness ==
    \E i \in Invocations :
        /\ call[i].entry = "cli"
        /\ call[i].args = << "02148", "abc" >>
        /\ IsNaN(call[i].daysAhead)
        /\ call[i].exited
        /\ call[i].exitCode = 1

\* what a run of the pipeline has done and produced
PipelineView(c) ==
    << c.pc, c.geoRequests, c.fcRequests, c.coords, c.data, c.weather, c.result,
       c.error, c.failedAt >>

\* the stage a run may be in next
StageSuccessors(pc) ==
    CASE pc = "START" -> {"GEOCODE", "FAILED"}
      [] pc = "GEOCODE" -> {"FORECAST_FETCH", "FAILED"}
      [] pc = "FORECAST_FETCH" -> {"SELECT_DAY", "FAILED"}
      [] pc = "SELECT_DAY" -> {"FORMAT", "FAILED"}
      [] pc = "FORMAT" -> {"DONE", "FAILED"}
      [] pc \in {"DONE", "FAILED"} -> {}

\* the error each stage raises
StageErrors(c, stage) ==
    CASE stage = "START" -> { ValidationError(SchemaIssues(c.raw)) }
      [] stage = "GEOCODE" -> { GeocodeError(c.zipCode), TypeErrorReading("latitude") }
      [] stage = "FORECAST_FETCH" -> { RangeError, FetchError }
      [] stage = "SELECT_DAY" -> { TypeErrorReading("weather_code") }
      [] OTHER -> {}

C10_StageState ==
    \A i \in Invocations :
        LET c == call[i]
        IN  RunsPipeline(c) =>
                /\ Len(c.geoRequests) <= 1
                /\ Len(c.fcRequests) <= 1
                /\ c.fcRequests # << >> =>
                        /\ Len(c.geoRequests) = 1
                        /\ c.pc # "GEOCODE"
                        /\ GeoAnswerOf(c).ok
                        /\ c.coords # Undefined
                /\ c.pc \in {"SELECT_DAY", "FORMAT", "DONE"} => Len(c.fcRequests) = 1
                /\ c.pc = "FAILED" =>
                        /\ c.error \in StageErrors(c, c.failedAt)
                        /\ c.result = Undefined
                        /\ c.failedAt = "START" => c.geoRequests = << >>
                        /\ c.failedAt \in {"START", "GEOCODE"} => c.fcRequests = << >>
                        /\ c.failedAt \in {"START", "GEOCODE", "FORECAST_FETCH"} =>
                                c.data = Undefined /\ c.weather = Undefined
                        /\ c.failedAt = "SELECT_DAY" => c.weather = Undefined
                /\ c.pc # "FAILED" => c.error = Undefined /\ c.failedAt = ""
                /\ c.pc = "DONE" <=> c.result # Undefined

C10_StageStep ==
    \A i \in Invocations :
        (call[i].entry \in {"none", "tool", "pipeline", "cli"}
            /\ RunsPipeline(call'[i])
            /\ PipelineView(call'[i]) # PipelineView(call[i])) =>
                call'[i].pc \in StageSuccessors(call[i].pc)

\* C10: a run of the pipeline moves START, GEOCODE, FORECAST_FETCH,
\* SELECT_DAY, FORMAT, DONE in that order, any stage may go to FAILED, and
\* DONE and FAILED are final; each service gets at most one request, the
\* forecast request only after the address service answered with success;
\* a failed run has executed nothing of a later stage and ends with exactly
\* the error its failing stage raised.
C10_StagesInOrder == []C10_StageState /\ [][C10_StageStep]_vars

\* a run failed in the forecast stage on the service's answer, after one
\* request to each service
C10_Witness ==
    \E i \in Invocations :
        /\ RunsPipeline(call[i])
        /\ call[i].pc = "FAILED"
        /\ call[i].failedAt = "FORECAST_FETCH"
        /\ call[i].error = FetchError
        /\ Len(call[i].geoRequests) = 1
        /\ Len(call[i].fcRequests) = 1

\* the state a call is in right after its entry point was called
Entered(c) ==
    IF c.entry = "tool"
    THEN ToolExecute(NewCall, c.raw)
    ELSE PipelineStart([NewCall EXCEPT !.entry = c.entry], c.zipCode, c.daysAhead)

\* the state in which a call running on its own, against the services as
\* they are, ends
RECURSIVE RunAlone(_)
RunAlone(c) ==
    CASE c.pc = "GEOCODE" -> RunAlone(GeocodeDone(c, GeoRespond(geoService, c.geoRequests[1])))
      [] c.pc = "FORECAST_FETCH" ->
            RunAlone(ForecastDone(c, FcRespond(fcService, c.fcRequests[1])))
      [] c.pc = "SELECT_DAY" -> RunAlone(SelectDay(c))
      [] c.pc = "FORMAT" -> RunAlone(Format(c))
      [] OTHER -> c

\* C7: however the invocations interleave, an invocation ends as it would
\* have ended running alone with its own parameters against the same
\* services, and two invocations with the same parameters end with the same
\* result or the same failure.
C7_Independent ==
    /\ \A i \in Invocations :
            (call[i].entry # "none" /\ Finished(call[i])) =>
                call[i] = RunAlone(Entered(call[i]))
    /\ \A i, j \in Invocations :
            (/\ call[i].entry # "none" /\ call[j].entry # "none"
             /\ Finished(call[i]) /\ Finished(call[j])
             /\ call[i].raw = call[j].raw
             /\ call[i].zipCode = call[j].zipCode
             /\ call[i].daysAhead = call[j].daysAhead) =>
                /\ call[i].result = call[j].result
                /\ call[i].error = call[j].error

\* two tool calls with the same payload have both ended with a forecast
C7_Witness ==
    \E i, j \in Invocations :
        /\ i # j
        /\ call[i].entry = "tool" /\ call[j].entry = "tool"
        /\ call[i].raw = call[j].raw
        /\ call[i].pc = "DONE" /\ call[j].pc = "DONE"
        /\ call[i].result = call[j].result

====
